---------------------------- MODULE Spec2Model ----------------------------
(***************************************************************************)
(* Model of concretelang/Support/LambdaArgument.h: the run-time argument   *)
(* values of a compiled function (IntLambdaArgument, EIntLambdaArgument,   *)
(* TensorLambdaArgument), the overflow-checked multiplication behind       *)
(* TensorLambdaArgument::getNumElements, the dynamic casts and the         *)
(* resolver of a value's type name.                                        *)
(*                                                                         *)
(* Widths.  TLC's integers are 32 bits wide, so size_t and int64_t are     *)
(* modelled SizeBits wide and unsigned int half as wide (as on LP64, 64    *)
(* and 32); every conversion and every product is reduced modulo the       *)
(* width of its type, as the C++ is.                                       *)
(***************************************************************************)
EXTENDS Integers, Sequences, FiniteSets, TLC

VARIABLES
  arg,      \* the LambdaArgument under consideration, or NoArg
  other,    \* the right-hand side of a tensor comparison, or NoArg
  accu,     \* the accumulator safeUnsignedMul updates by reference
  factor,   \* the factor of the next safeUnsignedMul call
  ret       \* the outcome of the last call

vars == <<arg, other, accu, factor, ret>>

---------------------------------------------------------------------------
(* Bounds of the model *)

\* width of size_t and of int64_t in the model
SizeBits == 6
\* longest dimension sequence of a tensor whose elements are counted
MaxRank == 4
\* longest linear element sequence handed to a tensor constructor
MaxLen == 2
\* largest element value and largest dimension handed to a tensor constructor
MaxElem == 1
MaxDim == 2
\* raw scalar values range over -ValueBound .. ValueBound (within the type)
ValueBound == 21
\* largest explicit precision below the backing width
MaxPrecision == 5

Pow2(n) == 2 ^ n

---------------------------------------------------------------------------
(* Integer types *)

UIntBits == SizeBits \div 2
SizeMax == Pow2(SizeBits) - 1
UIntMax == Pow2(UIntBits) - 1
Int64Min == -Pow2(SizeBits - 1)
Int64Max == Pow2(SizeBits - 1) - 1

\* (size_t)x and (unsigned int)x: reduction modulo the width
ToSizeT(x) == x % Pow2(SizeBits)
ToUInt(x) == x % Pow2(UIntBits)
\* (int64_t)x of an unsigned x of the same width
ToInt64(x) == LET m == x % Pow2(SizeBits) IN IF m > Int64Max THEN m - Pow2(SizeBits) ELSE m

\* the eight backing integer types, in the resolver's order
BackingTypes == <<"int8_t", "uint8_t", "int16_t", "uint16_t",
                  "int32_t", "uint32_t", "int64_t", "uint64_t">>
BackingTypeSet == {BackingTypes[i] : i \in DOMAIN BackingTypes}

IsSigned(T) == T \in {"int8_t", "int16_t", "int32_t", "int64_t"}

\* 8 * sizeof(BackingIntType)
BitWidth(T) ==
  CASE T \in {"int8_t", "uint8_t"} -> 8
    [] T \in {"int16_t", "uint16_t"} -> 16
    [] T \in {"int32_t", "uint32_t"} -> 32
    [] T \in {"int64_t", "uint64_t"} -> 64

\* NameOfFundamentalType<T>::get()
NameOfFundamentalType(T) == T

---------------------------------------------------------------------------
(* Values of the state *)

\* a class of the hierarchy: its template, the scalar template of a tensor's
\* elements, the backing integer type
Class(tmpl, scalar, T) == [tmpl |-> tmpl, scalar |-> scalar, T |-> T]

\* no call made yet, no object constructed yet
None == [fn |-> "none"]
NoArg == [cls |-> Class("none", "-", "-")]

---------------------------------------------------------------------------
(* safeUnsignedMul *)

\* the comparison turned around: `left < factor`
MulInverted(left, a, f) ==
  IF left < f
    THEN [status |-> "success", accu |-> ToSizeT(a * f)]
    ELSE [status |-> "overflow", accu |-> a]

\* safeUnsignedMul after `left` is known: the comparison and the update
MulOutcome(left, a, f) ==
  IF left > f
    THEN [status |-> "success", accu |-> ToSizeT(a * f)]
    ELSE [status |-> "overflow", accu |-> a]

\* The outcomes of safeUnsignedMul(accu, factor).  max() / accu with accu = 0
\* is undefined: the division traps or yields an arbitrary quotient.
SafeUnsignedMul(a, f) ==
  IF a = 0
    THEN {[status |-> "trap", accu |-> a]}
           \cup {MulOutcome(left, a, f) : left \in 0 .. SizeMax}
    ELSE {MulOutcome(SizeMax \div a, a, f)}

\* a caller hands accu and factor to safeUnsignedMul
CallSafeUnsignedMul ==
  /\ IF ret.fn = "safeUnsignedMul" THEN ret.status = "success" ELSE TRUE
  /\ \E o \in SafeUnsignedMul(accu, factor) :
       /\ accu' = o.accu
       /\ ret' = [fn |-> "safeUnsignedMul", accuIn |-> accu, factorIn |-> factor,
                  status |-> o.status]
  /\ UNCHANGED <<arg, other, factor>>

\* the caller picks the factor of its next call
NextFactor ==
  /\ ret.fn = "safeUnsignedMul" /\ ret.status = "success"
  /\ \E f \in 0 .. SizeMax : factor' = f /\ f # factor
  /\ ret' = None
  /\ UNCHANGED <<arg, other, accu>>

InitMul ==
  /\ arg = NoArg /\ other = NoArg /\ ret = None
  /\ accu \in 0 .. SizeMax
  /\ factor \in 0 .. SizeMax

NextMul == CallSafeUnsignedMul \/ NextFactor

SpecMul == InitMul /\ [][NextMul]_vars

\* C1: whenever the product accu * factor fits the accumulator type, the call
\* returns success and leaves accu equal to accu * factor (no overflow is
\* reported for a product that fits, accu = 1 with factor = max and accu = 0
\* included).
C1_FittingProductSucceeds ==
  (ret.fn = "safeUnsignedMul" /\ ret.accuIn * ret.factorIn <= SizeMax)
    => (ret.status = "success" /\ accu = ret.accuIn * ret.factorIn)

\* C2: whenever the product accu * factor exceeds the maximum of the
\* accumulator type the call returns the overflow error, and whenever it
\* returns success the new accu is the unbounded product of the old accu and
\* the factor (never a wrapped or truncated one).
C2_OverflowIsReported ==
  ret.fn = "safeUnsignedMul" =>
    /\ ret.accuIn * ret.factorIn > SizeMax => ret.status = "overflow"
    /\ ret.status = "success" => accu = ret.accuIn * ret.factorIn

C2_Witness ==
  /\ ret.fn = "safeUnsignedMul"
  /\ ret.status = "overflow"
  /\ ret.accuIn > 1 /\ ret.factorIn > 1
  /\ ret.accuIn * ret.factorIn > SizeMax
  /\ accu = ret.accuIn

---------------------------------------------------------------------------
(* The class hierarchy and its run-time type information *)

RTTIRootClass == Class("RTTIRoot", "-", "-")
LambdaArgumentClass == Class("LambdaArgument", "-", "-")
IntClass(T) == Class("IntLambdaArgument", "-", T)
EIntClass(T) == Class("EIntLambdaArgument", "-", T)
\* TensorLambdaArgument<S> for a scalar class S
TensorClass(S) == Class("TensorLambdaArgument", S.tmpl, S.T)

ScalarClasses == {IntClass(T) : T \in BackingTypeSet} \cup {EIntClass(T) : T \in BackingTypeSet}
TensorClasses == {TensorClass(S) : S \in ScalarClasses}
\* the 32 classes getLambdaArgumentTypeAsString tests for
LeafClasses == ScalarClasses \cup TensorClasses

IsScalar(o) == o.cls \in ScalarClasses
IsTensor(o) == o.cls \in TensorClasses

\* a variant of the hierarchy in which a tensor class extends its scalar class
ParentTensorExtendsScalar(c) ==
  CASE c.tmpl = "IntLambdaArgument" -> LambdaArgumentClass
    [] c.tmpl = "EIntLambdaArgument" -> IntClass(c.T)
    [] c.tmpl = "TensorLambdaArgument" -> Class(c.scalar, "-", c.T)
    [] OTHER -> RTTIRootClass

\* ParentT of each llvm::RTTIExtends<ThisT, ParentT>
Parent(c) ==
  CASE c.tmpl = "IntLambdaArgument" -> LambdaArgumentClass
    [] c.tmpl = "EIntLambdaArgument" -> IntClass(c.T)
    [] c.tmpl = "TensorLambdaArgument" -> LambdaArgumentClass
    [] OTHER -> RTTIRootClass

\* RTTIExtends::isA: the class itself or, up the chain, one of its parents
RECURSIVE IsA(_, _)
IsA(c, target) ==
  \/ c = target
  \/ c # RTTIRootClass /\ IsA(Parent(c), target)

\* LambdaArgument::isa<T>()
Isa(o, target) == IsA(o.cls, target)

\* LambdaArgument::dyn_cast<T>(): the object as a T, or null
DynCast(o, target) == IF IsA(o.cls, target) THEN "object" ELSE "null"

---------------------------------------------------------------------------
(* Constructors *)

\* bit k of v in two's complement
BitAt(v, k) == (v % Pow2(k + 1)) \div Pow2(k)

\* value & (1 << (precision - 1))
MaskValue(v, p) == BitAt(v, p - 1) * Pow2(p - 1)

\* IntLambdaArgument<T>(value, precision)
IntLambdaArgument(T, v, p) ==
  [cls |-> IntClass(T),
   precision |-> p,
   value |-> IF p < BitWidth(T) THEN MaskValue(v, p) ELSE v]

\* An object whose dynamic class is EIntLambdaArgument<T>: the class declares
\* no constructor, its RTTIExtends base inherits IntLambdaArgument<T>'s.
EIntLambdaArgument(T, v, p) == [IntLambdaArgument(T, v, p) EXCEPT !.cls = EIntClass(T)]

\* std::copy(src.begin(), src.end(), std::back_inserter(dst))
RECURSIVE CopyBackInsert(_, _)
CopyBackInsert(dst, src) ==
  IF src = <<>> THEN dst ELSE CopyBackInsert(Append(dst, Head(src)), Tail(src))

\* TensorLambdaArgument(ArrayRef value, ArrayRef<int64_t> dimensions)
TensorFromArray(S, value, dimensions) ==
  [cls |-> TensorClass(S),
   dimensions |-> dimensions,
   value |-> CopyBackInsert(<<>>, value)]

\* TensorLambdaArgument(std::vector &&value, ArrayRef<int64_t> dimensions)
TensorFromVector(S, value, dimensions) ==
  [cls |-> TensorClass(S), dimensions |-> dimensions, value |-> value]

\* TensorLambdaArgument(ArrayRef value): one dimension, the array's size
Tensor1D(S, value) == TensorFromArray(S, value, <<ToInt64(Len(value))>>)

\* the size1 * size2 elements of a[size1][size2], row after row
RECURSIVE Linearize(_)
Linearize(a) == IF a = <<>> THEN <<>> ELSE Head(a) \o Linearize(Tail(a))

\* TensorLambdaArgument(value_type (&a)[size1][size2])
Tensor2D(S, a) ==
  [cls |-> TensorClass(S),
   dimensions |-> <<ToInt64(Len(a)), ToInt64(Len(a[1]))>>,
   value |-> CopyBackInsert(<<>>, Linearize(a))]

---------------------------------------------------------------------------
(* Construction of the arguments: the first object becomes `arg`, the
   second one `other` *)

Place(o) ==
  IF arg = NoArg
    THEN arg' = o /\ other' = other
    ELSE other = NoArg /\ other' = o /\ arg' = arg

Min(a, b) == IF a < b THEN a ELSE b

\* a precision of 1 .. 8 * sizeof(T); 8 * sizeof(T) is the default
Precisions(T) == (1 .. Min(MaxPrecision, BitWidth(T) - 1)) \cup {BitWidth(T)}

\* raw values of type T
InputValues ==
  [T \in BackingTypeSet |-> {v \in (-ValueBound) .. ValueBound : IsSigned(T) \/ v >= 0}]
SampleValues == [T \in BackingTypeSet |-> InputValues[T] \cap {-1, 0, 3}]

NewInt(values) ==
  /\ arg = NoArg
  /\ \E T \in BackingTypeSet : \E v \in values[T] : \E p \in Precisions(T) :
       /\ arg' = IntLambdaArgument(T, v, p)
       /\ ret' = [fn |-> "IntLambdaArgument", raw |-> v]
  /\ UNCHANGED <<other, accu, factor>>

NewEInt(values) ==
  /\ arg = NoArg
  /\ \E T \in BackingTypeSet : \E v \in values[T] : \E p \in Precisions(T) :
       /\ arg' = EIntLambdaArgument(T, v, p)
       /\ ret' = [fn |-> "EIntLambdaArgument", raw |-> v]
  /\ UNCHANGED <<other, accu, factor>>

\* IntLambdaArgument::getValue()
CallGetValue ==
  /\ IsScalar(arg)
  /\ ret.fn \in {"IntLambdaArgument", "EIntLambdaArgument"}
  /\ ret' = [fn |-> "getValue", raw |-> ret.raw, value |-> arg.value]
  /\ UNCHANGED <<arg, other, accu, factor>>

\* linear element sequences, dimension sequences and two-dimensional arrays
ElemSeqs == UNION {[1 .. n -> 0 .. MaxElem] : n \in 0 .. MaxLen}
ShapeSeqs == {<<>>} \cup {<<d>> : d \in 0 .. MaxDim}
               \cup {<<d, e>> : d \in 0 .. MaxDim, e \in 0 .. MaxDim}
Arrays2D ==
  UNION {[1 .. sizes[1] -> [1 .. sizes[2] -> 0 .. MaxElem]] :
           sizes \in {ss \in (1 .. MaxLen) \X (1 .. MaxLen) : ss[1] * ss[2] <= MaxLen}}

\* a few of them, for the calls that read the class only
SampleElemSeqs == {<<>>, <<0>>, <<1, 0>>}
SampleShapes == {<<>>, <<0>>, <<2>>, <<1, 2>>}
SampleArrays2D == {<<(<<1>>)>>, <<(<<0, 1>>)>>, <<(<<1>>), (<<0>>)>>}

\* the scalar classes a second tensor can have: operator== reads the
\* protected `value` of the other tensor, which only its own class may
TensorScalars(scalars) ==
  IF arg = NoArg THEN scalars
  ELSE {S \in ScalarClasses : IsTensor(arg) /\ TensorClass(S) = arg.cls}

NewTensorFromArray(scalars, values, shapes) ==
  /\ \E S \in TensorScalars(scalars) : \E value \in values : \E dimensions \in shapes :
       Place(TensorFromArray(S, value, dimensions))
  /\ ret' = None
  /\ UNCHANGED <<accu, factor>>

NewTensorFromVector(scalars, values, shapes) ==
  /\ \E S \in TensorScalars(scalars) : \E value \in values : \E dimensions \in shapes :
       Place(TensorFromVector(S, value, dimensions))
  /\ ret' = None
  /\ UNCHANGED <<accu, factor>>

NewTensor1D(scalars, values) ==
  /\ \E S \in TensorScalars(scalars) : \E value \in values : Place(Tensor1D(S, value))
  /\ ret' = None
  /\ UNCHANGED <<accu, factor>>

NewTensor2D(scalars, arrays) ==
  /\ \E S \in TensorScalars(scalars) : \E a \in arrays : Place(Tensor2D(S, a))
  /\ ret' = None
  /\ UNCHANGED <<accu, factor>>

\* the owner destroys its objects
Destroy ==
  /\ arg # NoArg
  /\ arg' = NoArg /\ other' = NoArg /\ ret' = None
  /\ UNCHANGED <<accu, factor>>

InitArgs == arg = NoArg /\ other = NoArg /\ accu = 0 /\ factor = 0 /\ ret = None

---------------------------------------------------------------------------
(* TensorLambdaArgument::getNumElements *)

RECURSIVE Product(_)
Product(s) == IF s = <<>> THEN 1 ELSE Head(s) * Product(Tail(s))

\* The loop from position i with accumulator a: every dimension is converted
\* to unsigned int and multiplied in by safeUnsignedMul; the first error is
\* returned, a trap ends the program.
RECURSIVE NumElementsFrom(_, _, _)
NumElementsFrom(dimensions, i, a) ==
  IF i > Len(dimensions)
    THEN {[status |-> "value", value |-> a]}
    ELSE UNION {
           CASE o.status = "success" -> NumElementsFrom(dimensions, i + 1, o.accu)
             [] o.status = "overflow" -> {[status |-> "error", value |-> 0]}
             [] o.status = "trap" -> {[status |-> "trap", value |-> 0]}
           : o \in SafeUnsignedMul(a, ToUInt(dimensions[i]))}

\* getNumElements(): accu starts at 1
GetNumElements(o) == NumElementsFrom(o.dimensions, 1, 1)

\* dimension sizes a caller hands over: every unsigned int, the first values
\* beyond unsigned int, and the ends of int64_t
DimValues == {Int64Min, -1, Int64Max} \cup (0 .. UIntMax + 2)
DimSeqs == UNION {[1 .. n -> DimValues] : n \in 0 .. MaxRank}

\* the scalar class of the tensors whose elements are counted
CountedScalar == IntClass("uint64_t")

\* a tensor is constructed with the dimensions the caller gives
NewCountedTensor ==
  /\ arg = NoArg
  /\ \E dimensions \in DimSeqs : arg' = TensorFromArray(CountedScalar, <<>>, dimensions)
  /\ ret' = None
  /\ UNCHANGED <<other, accu, factor>>

CallGetNumElements ==
  /\ IsTensor(arg)
  /\ ret = None
  /\ \E r \in GetNumElements(arg) :
       ret' = [fn |-> "getNumElements", status |-> r.status, value |-> r.value]
  /\ UNCHANGED <<arg, other, accu, factor>>

NextNum == NewCountedTensor \/ CallGetNumElements \/ Destroy

SpecNum == InitArgs /\ [][NextNum]_vars

HasZero(s) == \E i \in DOMAIN s : s[i] = 0
NonNegative(s) == \A i \in DOMAIN s : s[i] >= 0

\* C3: for every dimension sequence that holds a 0, wherever it stands and
\* whatever the other dimensions are, getNumElements completes and returns 0:
\* no error, no trap.
C3_ZeroDimensionCountsZero ==
  (ret.fn = "getNumElements" /\ HasZero(arg.dimensions))
    => (ret.status = "value" /\ ret.value = 0)

\* C4: for every sequence of non-negative dimensions whose product fits
\* size_t, getNumElements returns the product of all dimensions, each
\* dimension used at its full value.
C4_CountIsProduct ==
  (ret.fn = "getNumElements" /\ NonNegative(arg.dimensions)
     /\ Product(arg.dimensions) <= SizeMax)
    => (ret.status = "value" /\ ret.value = Product(arg.dimensions))

---------------------------------------------------------------------------
(* IntLambdaArgument: the stored value *)

NextInt == NewInt(InputValues) \/ NewEInt(InputValues) \/ CallGetValue \/ Destroy

SpecInt == InitArgs /\ [][NextInt]_vars

\* C5: constructed with a precision p below the backing width, the value
\* getValue() returns is the raw value with its low p bits kept and all higher
\* bits cleared (v mod 2^p); with p = the backing width it is the raw value.
C5_ValueMaskedToPrecision ==
  ret.fn = "getValue" =>
    /\ arg.precision < BitWidth(arg.cls.T) => ret.value = ret.raw % Pow2(arg.precision)
    /\ arg.precision = BitWidth(arg.cls.T) => ret.value = ret.raw

---------------------------------------------------------------------------
(* TensorLambdaArgument: construction and comparison *)

\* the loop over llvm::zip(value, other.value), which ends with the shorter
RECURSIVE ZipAllEqual(_, _)
ZipAllEqual(x, y) ==
  IF x = <<>> \/ y = <<>> THEN TRUE
  ELSE IF Head(x) # Head(y) THEN FALSE
  ELSE ZipAllEqual(Tail(x), Tail(y))

\* TensorLambdaArgument::operator==
TensorEquals(a, b) ==
  IF a.dimensions # b.dimensions THEN FALSE ELSE ZipAllEqual(a.value, b.value)

\* TensorLambdaArgument::operator!=
TensorNotEquals(a, b) == ~TensorEquals(a, b)

CallCompare ==
  /\ IsTensor(arg) /\ IsTensor(other)
  /\ ret = None
  /\ ret' = [fn |-> "operator==", eq |-> TensorEquals(arg, other),
             ne |-> TensorNotEquals(arg, other)]
  /\ UNCHANGED <<arg, other, accu, factor>>

\* the tensors compared are tensors of uint8_t
ComparedScalars == {IntClass("uint8_t")}

NextTensor ==
  \/ NewTensorFromArray(ComparedScalars, ElemSeqs, ShapeSeqs)
  \/ NewTensorFromVector(ComparedScalars, ElemSeqs, ShapeSeqs)
  \/ NewTensor1D(ComparedScalars, ElemSeqs)
  \/ NewTensor2D(ComparedScalars, Arrays2D)
  \/ CallCompare
  \/ Destroy

SpecTensor == InitArgs /\ [][NextTensor]_vars

\* C7: two tensors compare equal if and only if their dimension sequences are
\* identical and their linear element sequences are identical (same length,
\* same value at every index); operator!= is the exact negation.
C7_EqualIffSameShapeAndElements ==
  ret.fn = "operator==" =>
    /\ ret.eq <=> (arg.dimensions = other.dimensions /\ arg.value = other.value)
    /\ ret.ne <=> ~ret.eq

\* C8: every tensor a constructor produced stores as many elements as the
\* product of its stored dimensions.
C8_LengthIsProductOfDimensions ==
  \A o \in {arg, other} :
    IsTensor(o) => Len(o.value) = Product(o.dimensions)

---------------------------------------------------------------------------
(* Dynamic casts and getLambdaArgumentTypeAsString *)

\* LambdaArgumentTypeName<T, Ts...>::get: the four tests for T in the order
\* written, then the remaining types; LambdaArgumentTypeName<>::get asserts
RECURSIVE LambdaArgumentTypeName(_, _)
LambdaArgumentTypeName(Ts, o) ==
  IF Ts = <<>> THEN "assert(false)"
  ELSE LET T == Head(Ts) IN
    IF DynCast(o, IntClass(T)) # "null"
      THEN NameOfFundamentalType(T)
    ELSE IF DynCast(o, EIntClass(T)) # "null"
      THEN "encrypted " \o NameOfFundamentalType(T)
    ELSE IF DynCast(o, TensorClass(IntClass(T))) # "null"
      THEN "tensor<" \o NameOfFundamentalType(T) \o ">"
    ELSE IF DynCast(o, TensorClass(EIntClass(T))) # "null"
      THEN "tensor<encrypted " \o NameOfFundamentalType(T) \o ">"
    ELSE LambdaArgumentTypeName(Tail(Ts), o)

GetLambdaArgumentTypeAsString(o) == LambdaArgumentTypeName(BackingTypes, o)

AllClasses == LeafClasses \cup {LambdaArgumentClass, RTTIRootClass}

\* the caller is between two calls
Idle == ret.fn \notin {"dyn_cast", "isa", "getLambdaArgumentTypeAsString"}

CallDynCast ==
  /\ arg # NoArg /\ Idle
  /\ \E target \in AllClasses :
       ret' = [fn |-> "dyn_cast", target |-> target, result |-> DynCast(arg, target)]
  /\ UNCHANGED <<arg, other, accu, factor>>

CallIsa ==
  /\ arg # NoArg /\ Idle
  /\ \E target \in AllClasses :
       ret' = [fn |-> "isa", target |-> target, result |-> Isa(arg, target)]
  /\ UNCHANGED <<arg, other, accu, factor>>

CallGetTypeAsString ==
  /\ arg # NoArg /\ Idle
  /\ ret' = [fn |-> "getLambdaArgumentTypeAsString",
             name |-> GetLambdaArgumentTypeAsString(arg)]
  /\ UNCHANGED <<arg, other, accu, factor>>

\* the caller has read the result of its call
DiscardResult ==
  /\ ~Idle
  /\ ret' = None
  /\ UNCHANGED <<arg, other, accu, factor>>

\* a write through the pointer the mutable getValue() returns
WriteElement ==
  /\ IsTensor(arg) /\ Idle
  /\ \E i \in DOMAIN arg.value : \E v \in 0 .. MaxElem :
       /\ v # arg.value[i]
       /\ arg' = [arg EXCEPT !.value[i] = v]
  /\ ret' = None
  /\ UNCHANGED <<other, accu, factor>>

Next ==
  \/ NewInt(SampleValues)
  \/ NewEInt(SampleValues)
  \/ arg = NoArg /\ NewTensorFromArray(ScalarClasses, SampleElemSeqs, SampleShapes)
  \/ arg = NoArg /\ NewTensorFromVector(ScalarClasses, SampleElemSeqs, SampleShapes)
  \/ arg = NoArg /\ NewTensor1D(ScalarClasses, SampleElemSeqs)
  \/ arg = NoArg /\ NewTensor2D(ScalarClasses, SampleArrays2D)
  \/ WriteElement
  \/ CallDynCast
  \/ CallIsa
  \/ CallGetTypeAsString
  \/ DiscardResult
  \/ Destroy

Spec == InitArgs /\ [][Next]_vars

\* the string the rendering rules give a leaf class
RenderedName(c) ==
  CASE c.tmpl = "IntLambdaArgument" -> NameOfFundamentalType(c.T)
    [] c.tmpl = "EIntLambdaArgument" -> "encrypted " \o NameOfFundamentalType(c.T)
    [] c.tmpl = "TensorLambdaArgument" /\ c.scalar = "IntLambdaArgument" ->
         "tensor<" \o NameOfFundamentalType(c.T) \o ">"
    [] c.tmpl = "TensorLambdaArgument" /\ c.scalar = "EIntLambdaArgument" ->
         "tensor<encrypted " \o NameOfFundamentalType(c.T) \o ">"

\* C6: for each of the 8 backing types and each of the 4 kinds the resolver
\* returns name(T), "encrypted " + name(T), "tensor<" + name(T) + ">" or
\* "tensor<encrypted " + name(T) + ">", so the 32 leaf classes get pairwise
\* different strings.
C6_TypeNameRendering ==
  ret.fn = "getLambdaArgumentTypeAsString" =>
    /\ ret.name = RenderedName(arg.cls)
    /\ \A c \in LeafClasses :
         c # arg.cls => GetLambdaArgumentTypeAsString([cls |-> c]) # ret.name

\* the classes a scalar and a tensor may be cast to without a match
NoMatchFor(o) ==
  IF IsScalar(o) THEN TensorClasses ELSE IF IsTensor(o) THEN ScalarClasses ELSE {}

\* what C9 says of one state: no cast of a scalar to a tensor class or of a
\* tensor to a scalar class matches, and the last call returned so
NoCrossKindMatch ==
  /\ \A o \in {arg, other} : \A target \in NoMatchFor(o) :
       DynCast(o, target) = "null" /\ ~Isa(o, target)
  /\ (ret.fn = "dyn_cast" /\ ret.target \in NoMatchFor(arg)) => ret.result = "null"
  /\ (ret.fn = "isa" /\ ret.target \in NoMatchFor(arg)) => ret.result = FALSE

\* an object keeps its class for as long as it lives
KindFixed == (arg # NoArg /\ arg' # NoArg) => arg'.cls = arg.cls

\* C9: a dyn_cast or isa of a scalar value to any tensor class, and of a
\* tensor value to any scalar class, yields no match (null, false), whatever
\* was constructed before; no step changes the class of a value.
C9_DowncastSafety == []NoCrossKindMatch /\ [][KindFixed]_vars

C9_Witness ==
  /\ IsTensor(arg)
  /\ ret.fn = "dyn_cast"
  /\ ret.target = IntClass(arg.cls.T)
  /\ ret.result = "null"

\* the resolver with the four tests for each type made in the order `order`
\* (1: IntLambdaArgument<T>, 2: EIntLambdaArgument<T>, 3 and 4: their tensors)
TestClass(k, T) ==
  CASE k = 1 -> IntClass(T)
    [] k = 2 -> EIntClass(T)
    [] k = 3 -> TensorClass(IntClass(T))
    [] k = 4 -> TensorClass(EIntClass(T))

RECURSIVE FirstMatch(_, _, _)
FirstMatch(order, T, o) ==
  IF order = <<>> THEN "none"
  ELSE IF DynCast(o, TestClass(Head(order), T)) # "null"
    THEN RenderedName(TestClass(Head(order), T))
  ELSE FirstMatch(Tail(order), T, o)

RECURSIVE ReorderedTypeName(_, _, _)
ReorderedTypeName(order, Ts, o) ==
  IF Ts = <<>> THEN "assert(false)"
  ELSE IF FirstMatch(order, Head(Ts), o) # "none"
    THEN FirstMatch(order, Head(Ts), o)
  ELSE ReorderedTypeName(order, Tail(Ts), o)

TestOrders == {order \in [1 .. 4 -> 1 .. 4] : \A j, k \in 1 .. 4 : j # k => order[j] # order[k]}

\* C10: for every value of one of the 32 leaf classes exactly one of the 32
\* dyn_cast tests succeeds, so the resolver returns the same string in
\* whatever order the tests are made.
C10_LeafShapesExclusive ==
  ret.fn = "getLambdaArgumentTypeAsString" =>
    /\ Cardinality({c \in LeafClasses : DynCast(arg, c) # "null"}) = 1
    /\ \A order \in TestOrders : ReorderedTypeName(order, BackingTypes, arg) = ret.name

=============================================================================
